---------------------------- MODULE Spec2Model ----------------------------
(***************************************************************************)
(* Chessboard line detection and tile slicing of tensorflow_chessbot       *)
(* (src/tensorflow_compvision.py): checkMatch, pruneLines, skeletonize_1d, *)
(* getChessLines, the two getChessLines calls of the script, getChessTiles *)
(* and the is_match guards that follow it.                                 *)
(*                                                                         *)
(* Arrays are 1-based sequences here; a numpy index k is position k + 1.   *)
(* A 2D array is kept as the pair of sequences of SOURCE row and column    *)
(* indices (0-based, into the image a) its pixels were copied from: every  *)
(* array operation of getChessTiles (np.pad mode='edge', slicing) acts on  *)
(* the two axes separately, so array[r][c] = a[rows[r]][cols[c]] exactly.  *)
(***************************************************************************)
EXTENDS Integers, Sequences, FiniteSets, TLC

VARIABLES
    pc,        \* position of the script: "lines1", "lines2", "tiles", "save",
               \* "done"; "lines_raised" or "raised" after an exception
    hdx,       \* hough_Dx.eval().flatten(): response curve over the columns
    hdy,       \* hough_Dy.eval().flatten(): response curve over the rows
    a_shape,   \* a.shape = <<H, W>>
    lines_x,   \* vertical line positions (script global)
    lines_y,   \* horizontal line positions (script global)
    is_match,  \* script global
    tiles,     \* result of the getChessTiles call, NoTiles before it
    saved,     \* set of tile indices written to disk
    img_save_dir, \* the output directory: "absent", "exists" (found by
               \* os.path.exists) or "created" (by os.makedirs)
    lineset,   \* argument of checkMatch / pruneLines when called on their own
    pruned,    \* pruneLines(lineset)
    matched,   \* checkMatch(lineset)
    lpc,       \* "in" before the two functions were applied, "out" after
    img,       \* the image behind a, as the parameters it was drawn from
    skel_arg,  \* argument of skeletonize_1d when called on its own
    skel_out,  \* skeletonize_1d(skel_arg)
    spc,       \* "in" before skeletonize_1d was applied, "out" after
    rend,      \* the screenshot renderer that runs: its class and its url
    rpc,       \* position of the renderer's program: "start", "exec" (inside
               \* app.exec_()), "exiting" (the loop was told to exit),
               \* "exited", "raised"
    exit_code, \* return code handed to the event loop by exit() / quit()
    exit_status, \* exit status of the process, -1 while it runs
    load,      \* "none", "loading" or "idle": the page load of the view
    timers,    \* pending QTimer.singleShot timers: the ticks left of each
    shot,      \* TRUE once the screenshot file was saved
    hist       \* the renderer's events so far, in order

vars == <<pc, hdx, hdy, a_shape, lines_x, lines_y, is_match, tiles, saved,
          img_save_dir, lineset, pruned, matched, lpc, img, skel_arg, skel_out, spc,
          rend, rpc, exit_code, exit_status, load, timers, shot, hist>>

pipeVars == <<pc, hdx, hdy, a_shape, lines_x, lines_y, is_match, tiles, saved,
              img_save_dir, img>>
lineVars == <<lineset, pruned, matched, lpc>>
skelVars == <<skel_arg, skel_out, spc>>
rendVars == <<rend, rpc, exit_code, exit_status, load, timers, shot, hist>>

\* the parts of the state a run does not use
NoImage == [kind |-> "none"]

NoRenderer == [cls |-> "none", url |-> "none"]

SkelOff == skel_arg = << >> /\ skel_out = << >> /\ spc = "off"

RendOff ==
    /\ rend = NoRenderer
    /\ rpc = "off"
    /\ exit_code = -1
    /\ exit_status = -1
    /\ load = "none"
    /\ timers = << >>
    /\ shot = FALSE
    /\ hist = << >>

-----------------------------------------------------------------------------
(* numpy helpers *)

Abs(v) == IF v < 0 THEN -v ELSE v

Min(p, q) == IF p < q THEN p ELSE q

Max(p, q) == IF p > q THEN p ELSE q

\* an array given sample by sample, held as a sequence (the samples are
\* computed once, when the array is made)
NpArray(f) == SubSeq(f, 1, Len(f))

\* np.diff: consecutive differences, empty for fewer than two elements
NpDiff(s) == [k \in 1..(Len(s) - 1) |-> s[k + 1] - s[k]]

\* s[lo:hi] for 0 <= lo, 0 <= hi: half-open, 0-based, clipped to the array
NpSlice(s, lo, hi) == SubSeq(s, lo + 1, Min(hi, Len(s)))

-----------------------------------------------------------------------------
(* checkMatch *)

\* checkMatchLoop with a tolerance of 8 px
RECURSIVE checkMatchLoopLoose(_, _, _, _)
checkMatchLoopLoose(linediff, k, x, cnt) ==
    IF k > Len(linediff) THEN cnt
    ELSE IF Abs(linediff[k] - x) < 8
         THEN checkMatchLoopLoose(linediff, k + 1, x, cnt + 1)
         ELSE checkMatchLoopLoose(linediff, k + 1, linediff[k], 0)

\* checkMatchLoop with the tolerance one pixel tighter
RECURSIVE checkMatchLoopTight(_, _, _, _)
checkMatchLoopTight(linediff, k, x, cnt) ==
    IF k > Len(linediff) THEN cnt
    ELSE IF Abs(linediff[k] - x) < 4
         THEN checkMatchLoopTight(linediff, k + 1, x, cnt + 1)
         ELSE checkMatchLoopTight(linediff, k + 1, linediff[k], 0)

\* the for loop of checkMatch from diff number k on, with the locals x and cnt
RECURSIVE checkMatchLoop(_, _, _, _)
checkMatchLoop(linediff, k, x, cnt) ==
    IF k > Len(linediff) THEN cnt
    ELSE IF Abs(linediff[k] - x) < 5
         THEN checkMatchLoop(linediff, k + 1, x, cnt + 1)
         ELSE checkMatchLoop(linediff, k + 1, linediff[k], 0)

checkMatch(ls) == checkMatchLoop(NpDiff(ls), 1, 0, 0) = 5

-----------------------------------------------------------------------------
(* pruneLines *)

\* the for loop of pruneLines from diff number k on (numpy index i = k - 1),
\* with the locals x, cnt and start_pos
RECURSIVE pruneLinesLoop(_, _, _, _, _, _)
pruneLinesLoop(ls, linediff, k, x, cnt, start_pos) ==
    IF k > Len(linediff) THEN ls
    ELSE IF Abs(linediff[k] - x) < 5
         THEN IF cnt + 1 = 5
              THEN NpSlice(ls, start_pos, (k - 1) + 2)
              ELSE pruneLinesLoop(ls, linediff, k + 1, x, cnt + 1, start_pos)
         ELSE pruneLinesLoop(ls, linediff, k + 1, linediff[k], 0, k - 1)

pruneLines(ls) == pruneLinesLoop(ls, NpDiff(ls), 1, 0, 0, 0)

-----------------------------------------------------------------------------
(* skeletonize_1d *)

\* the forward loop with < in place of <=
RECURSIVE skelForwardStrict(_, _, _, _)
skelForwardStrict(arr, cur, lo, hi) ==
    IF lo > hi \/ Len(cur) = 0 THEN cur
    ELSE IF lo = hi
         THEN IF arr[lo] < cur[lo + 1] THEN [cur EXCEPT ![lo] = 0] ELSE cur
    ELSE LET mid == (lo + hi) \div 2
         IN  skelForwardStrict(arr, skelForwardStrict(arr, cur, lo, mid), mid + 1, hi)

\* "Go forwards": the iterations i = lo - 1 .. hi - 1 (numpy indices) of
\* for i in range(_arr.size - 1), run in increasing order; arr is the
\* untouched argument and cur the copy _arr being modified. The range is run
\* as its lower half followed by its upper half.
RECURSIVE skelForward(_, _, _, _)
skelForward(arr, cur, lo, hi) ==
    IF lo > hi \/ Len(cur) = 0 THEN cur
    ELSE IF lo = hi
         THEN IF arr[lo] <= cur[lo + 1] THEN [cur EXCEPT ![lo] = 0] ELSE cur
    ELSE LET mid == (lo + hi) \div 2
         IN  skelForward(arr, skelForward(arr, cur, lo, mid), mid + 1, hi)

\* "Go reverse": the iterations i = hi - 1 .. lo - 1 (numpy indices) of
\* for i in np.arange(_arr.size - 1, 0, -1), run in decreasing order: the
\* upper half of the range followed by its lower half
RECURSIVE skelReverse(_, _, _)
skelReverse(cur, lo, hi) ==
    IF lo > hi \/ Len(cur) = 0 THEN cur
    ELSE IF lo = hi
         THEN IF cur[lo - 1] > cur[lo] THEN [cur EXCEPT ![lo] = 0] ELSE cur
    ELSE LET mid == (lo + hi) \div 2
         IN  skelReverse(skelReverse(cur, mid + 1, hi), lo, mid)

\* skeletonize_1d without its reverse loop
skeletonize_1dForwardOnly(arr) == skelForward(arr, arr, 1, Len(arr) - 1)

skeletonize_1d(arr) ==
    skelReverse(skelForward(arr, arr, 1, Len(arr) - 1), 2, Len(arr))

-----------------------------------------------------------------------------
(* getChessLines *)

\* scipy.signal.gaussian(21, 4): exp(-((n - 10) / 4)^2 / 2) for n = 0..20, in
\* fixed point with 8 decimals (the sum of the window stays under 2^31).
\* The division by np.sum(gausswin) scales every sample by the same positive
\* factor; skeletonize_1d only compares samples and np.where only tests them
\* against 0, so the window is kept unnormalised.
gausswin ==
    <<4393693, 7955951, 13533528, 21626517,
      32465247, 45783336, 60653066, 75483960,
      88249690, 96923323, 100000000,
      96923323, 88249690, 75483960,
      60653066, 45783336, 32465247, 21626517,
      13533528, 7955951, 4393693>>

\* v > max * num / den for v >= 0, max >= 0, num > 0, den > 0, compared
\* exactly (the float rounding of max * 3 / 5 * .9 is left out): v / num and
\* max / den are compared as whole part and remainder, which keeps every
\* intermediate value under 2^31
OverThresh(v, thresh) ==
    LET qv == v \div thresh.num
        rv == v % thresh.num
        qm == thresh.max \div thresh.den
        rm == thresh.max % thresh.den
    IN  qv > qm \/ (qv = qm /\ rv * thresh.den > rm * thresh.num)

\* hd[hd > thresh]: the hot samples alone instead of the mask
BinarizeHotOnly(hd, thresh) ==
    SelectSeq(NpArray([k \in 1..Len(hd) |-> OverThresh(hd[k], thresh)]),
              LAMBDA h : h)

\* hd > thresh, sample by sample; a threshold is max * num / den
Binarize(hd, thresh) ==
    NpArray([k \in 1..Len(hd) |-> OverThresh(hd[k], thresh)])

\* the sum over the window offsets j..10 of the window centred on position i,
\* the signal zero outside the array: sample i + 9 (0-based) of the full
\* convolution of hot and gausswin
RECURSIVE ConvolveAt(_, _, _)
ConvolveAt(hot, i, j) ==
    IF j > 10 THEN 0
    ELSE (IF i - j >= 1 /\ i - j <= Len(hot) /\ hot[i - j]
          THEN gausswin[j + 11] ELSE 0) + ConvolveAt(hot, i, j + 1)

\* the number of leading samples of the full convolution that mode='same'
\* drops: n - n \div 2 - 1 for n the length of the shorter operand
SameOffset(hot) ==
    LET n == Min(Len(hot), Len(gausswin)) IN n - (n \div 2) - 1

\* np.convolve(hot, gausswin, mode='same') for hot not empty: the
\* max(Len(hot), 21) samples of the full convolution from SameOffset on
NpConvolveSame(hot) ==
    NpArray([i \in 1..Max(Len(hot), Len(gausswin)) |->
                ConvolveAt(hot, i + SameOffset(hot) - 10, -10)])

\* np.where(arr)[0]: the 0-based indices of the nonzero samples among the
\* positions lo..hi, in increasing order
RECURSIVE NpWhereIn(_, _, _)
NpWhereIn(arr, lo, hi) ==
    IF lo > hi THEN << >>
    ELSE IF lo = hi THEN (IF arr[lo] # 0 THEN <<lo - 1>> ELSE << >>)
    ELSE LET mid == (lo + hi) \div 2
         IN  NpWhereIn(arr, lo, mid) \o NpWhereIn(arr, mid + 1, hi)

NpWhere(arr) == NpWhereIn(arr, 1, Len(arr))

\* the candidate lines of one axis, before pruning
CandidateLines(hd, thresh) ==
    NpWhere(skeletonize_1d(NpConvolveSame(Binarize(hd, thresh))))

\* the flag with checkMatch left out
IsMatchLengthOnly(lx, ly) == Len(lx) = 7 /\ Len(ly) = 7

\* is_match = len(lines_x) == 7 and len(lines_y) == 7 and checkMatch(lines_x)
\*            and checkMatch(lines_y)
IsMatch(lx, ly) ==
    Len(lx) = 7 /\ Len(ly) = 7 /\ checkMatch(lx) /\ checkMatch(ly)

\* the result holds err = "none" and the three returned values when the call
\* returns; np.convolve raises ValueError on an empty first operand
getChessLines(hdx_, hdy_, hdx_thresh, hdy_thresh) ==
    IF Binarize(hdx_, hdx_thresh) = << >> \/ Binarize(hdy_, hdy_thresh) = << >>
    THEN [err |-> "ValueError", lines_x |-> << >>, lines_y |-> << >>,
          is_match |-> FALSE]
    ELSE
    LET lx == pruneLines(CandidateLines(hdx_, hdx_thresh))
        ly == pruneLines(CandidateLines(hdy_, hdy_thresh))
    IN  [err |-> "none", lines_x |-> lx, lines_y |-> ly,
         is_match |-> IsMatch(lx, ly)]

-----------------------------------------------------------------------------
(* getChessTiles *)

\* np.round(num / den) for den > 0: to the nearest integer, a tie to the even one
NpRound(num, den) ==
    LET q == num \div den
        r == num % den
    IN  IF 2 * r < den THEN q
        ELSE IF 2 * r > den THEN q + 1
        ELSE IF q % 2 = 0 THEN q ELSE q + 1

\* np.int32(np.round(np.mean(np.diff(ls)))): the diffs sum to last - first
MeanStep(ls) == NpRound(ls[Len(ls)] - ls[1], Len(ls) - 1)

\* np.pad(s, (l, r), mode='edge') along one axis, s not empty
PadEdge(s, l, r) ==
    [k \in 1..(l + Len(s) + r) |-> s[Max(1, Min(Len(s), k - l))]]

\* if lines_y[-1] + stepx > a.shape[0] - 1
PadBottomNeeded(ly, stepx, stepy, H) == ly[Len(ly)] + stepx > H - 1

\* padl_x, padr_x, padl_y, padr_y of the image
ImagePads(shape, lx, ly, stepx, stepy) ==
    [padl_x |-> IF lx[1] - stepx < 0 THEN Abs(lx[1] - stepx) ELSE 0,
     padr_x |-> IF lx[Len(lx)] + stepx > shape[2] - 1
                THEN Abs(lx[Len(lx)] + stepx - shape[2]) ELSE 0,
     padl_y |-> IF ly[1] - stepy < 0 THEN Abs(ly[1] - stepy) ELSE 0,
     padr_y |-> IF PadBottomNeeded(ly, stepx, stepy, shape[1])
                THEN Abs(ly[Len(ly)] + stepy - shape[1]) ELSE 0]

\* np.hstack([ls[0] - step, ls]) + padl: the far boundary left out
BoardSetsNoFarEnd(ls, step, padl) ==
    [k \in 1..(Len(ls) + 1) |->
        (IF k = 1 THEN ls[1] - step ELSE ls[k - 1]) + padl]

\* np.hstack([ls[0] - step, ls, ls[-1] + step]) + padl
BoardSets(ls, step, padl) ==
    [k \in 1..(Len(ls) + 2) |->
        (IF k = 1 THEN ls[1] - step
         ELSE IF k = Len(ls) + 2 THEN ls[Len(ls)] + step
         ELSE ls[k - 1]) + padl]

\* one axis of a2 after a2 = a2[sets[0]:sets[-1]]: the source indices 0..n-1
\* of the image axis, edge-padded and cropped to the board
BoardAxis(n, padl, padr, sets) ==
    NpSlice(PadEdge([k \in 1..n |-> k - 1], padl, padr), sets[1], sets[Len(sets)])

\* CellBounds with the padding of a narrow cell always on the right
CellBoundsPadRight(sets, step, c) ==
    LET v1 == sets[c + 1]
        v2 == sets[c + 2]
    IN  IF v2 - v1 > step
        THEN IF c = 7 THEN [v1 |-> v2 - step, v2 |-> v2, padl |-> 0, padr |-> 0]
                      ELSE [v1 |-> v1, v2 |-> v1 + step, padl |-> 0, padr |-> 0]
        ELSE [v1 |-> v1, v2 |-> v2, padl |-> 0, padr |-> step - (v2 - v1)]

\* the body of the tile loop along one axis for cell number c (0..7): the
\* bounds v1, v2 after clamping and the two pads of the cell; sets is 0-based
\* in the code, so sets[c] is position c + 1 here
CellBounds(sets, step, c) ==
    LET v1 == sets[c + 1]
        v2 == sets[c + 2]
    IN  IF v2 - v1 > step
        THEN IF c = 7 THEN [v1 |-> v2 - step, v2 |-> v2, padl |-> 0, padr |-> 0]
                      ELSE [v1 |-> v1, v2 |-> v1 + step, padl |-> 0, padr |-> 0]
        ELSE IF v2 - v1 < step
        THEN IF c = 7 THEN [v1 |-> v1, v2 |-> v2, padl |-> 0, padr |-> step - (v2 - v1)]
                      ELSE [v1 |-> v1, v2 |-> v2, padl |-> step - (v2 - v1), padr |-> 0]
        ELSE [v1 |-> v1, v2 |-> v2, padl |-> 0, padr |-> 0]

\* one axis of np.pad(a2[v1:v2], (padl, padr), mode='edge') assigned into an
\* axis of length step of squares: np.pad raises on an empty axis that is to
\* be padded; the assignment broadcasts an axis of length 1 and raises on any
\* other length than step
CellAxis(axis, step, b) ==
    LET cut == NpSlice(axis, b.v1, b.v2)
        n   == Len(cut) + b.padl + b.padr
    IN  IF cut = << >> THEN [err |-> TRUE, seq |-> << >>]
        ELSE IF n = step THEN [err |-> FALSE, seq |-> PadEdge(cut, b.padl, b.padr)]
        ELSE IF n = 1 THEN [err |-> FALSE, seq |-> [k \in 1..step |-> cut[1]]]
        ELSE [err |-> TRUE, seq |-> << >>]

\* the stack index with the rows counted from the top
TileIndexRowMajor(i, j) == j * 8 + i

\* squares[:, :, (7 - j) * 8 + i]
TileIndex(i, j) == (7 - j) * 8 + i

NoTiles == [ok |-> FALSE, err |-> "none"]

\* np.int32(nan), the step of a line set without a gap (np.mean of an empty
\* np.diff is nan): the conversion raises ValueError, or it yields the most
\* negative int32, depending on the numpy build
NanCastOutcomes == {"ValueError", "INT_MIN"}

\* the call when a line set has fewer than 2 positions. With the step
\* -2^31: lines_x[0] or lines_y[0] raises IndexError on an empty set (lines
\* 435, 439); else a step of -2^31 on the y axis makes padr_y about 2^31 rows
\* when the test of line 441 holds, which np.pad cannot allocate; else
\* np.zeros raises ValueError on the negative dimension (line 460)
StepFault(shape, lx, ly, nan_cast) ==
    IF nan_cast = "ValueError"
    THEN [ok |-> FALSE, err |-> "ValueError", where |-> "step"]
    ELSE IF Len(lx) = 0 \/ Len(ly) = 0
    THEN [ok |-> FALSE, err |-> "IndexError", where |-> "pads"]
    ELSE IF Len(ly) = 1 /\ Len(lx) >= 2
            /\ PadBottomNeeded(ly, MeanStep(lx), 0, shape[1])
    THEN [ok |-> FALSE, err |-> "MemoryError", where |-> "pads"]
    ELSE [ok |-> FALSE, err |-> "ValueError", where |-> "zeros"]

\* sets[c + 1] (0-based) is out of range: x2 = setsx[i + 1] or
\* y2 = setsy[j + 1] raises IndexError
IndexFault(sets, c) == c + 2 > Len(sets)

\* the exception of iteration (i, j) of the tile loop, "none" if it
\* completes: the reads of setsx come first, then those of setsy, then the
\* assignment into squares
CellFault(setsx, setsy, colsOf, rowsOf, i, j) ==
    IF IndexFault(setsx, i) \/ IndexFault(setsy, j) THEN "IndexError"
    ELSE IF colsOf[i].err \/ rowsOf[j].err THEN "ValueError"
    ELSE "none"

\* a.shape is shape = <<H, W>>; the result holds the stack squares (index ->
\* the source rows and columns of the tile) when the call returns, err and
\* the place of the exception when it raises, the locals stepx, stepy and the
\* pads given to np.pad(a, ...), and the bounds and pads of the cells of the
\* tile loop along each axis. The loop runs i = 0..7 with j = 0..7 inside:
\* iteration number i * 8 + j, and the first iteration that raises ends the
\* call.
getChessTiles(shape, lx, ly, nan_cast) ==
    IF Len(lx) < 2 \/ Len(ly) < 2 THEN StepFault(shape, lx, ly, nan_cast)
    ELSE
    LET stepx == MeanStep(lx)
        stepy == MeanStep(ly)
        pad   == ImagePads(shape, lx, ly, stepx, stepy)
        setsx0 == BoardSets(lx, stepx, pad.padl_x)
        setsy0 == BoardSets(ly, stepy, pad.padl_y)
        a2cols == BoardAxis(shape[2], pad.padl_x, pad.padr_x, setsx0)
        a2rows == BoardAxis(shape[1], pad.padl_y, pad.padr_y, setsy0)
        setsx == [k \in 1..Len(setsx0) |-> setsx0[k] - setsx0[1]]
        setsy == [k \in 1..Len(setsy0) |-> setsy0[k] - setsy0[1]]
        cellsx == [i \in {c \in 0..7 : ~IndexFault(setsx, c)} |->
                      CellBounds(setsx, stepx, i)]
        cellsy == [j \in {c \in 0..7 : ~IndexFault(setsy, c)} |->
                      CellBounds(setsy, stepy, j)]
        colsOf == [i \in DOMAIN cellsx |-> CellAxis(a2cols, stepx, cellsx[i])]
        rowsOf == [j \in DOMAIN cellsy |-> CellAxis(a2rows, stepy, cellsy[j])]
        faults == {n \in 0..63 :
                      CellFault(setsx, setsy, colsOf, rowsOf, n \div 8, n % 8) # "none"}
        first == CHOOSE n \in faults : \A m \in faults : n <= m
    IN  IF faults # {}
        THEN [ok |-> FALSE,
              err |-> CellFault(setsx, setsy, colsOf, rowsOf, first \div 8, first % 8),
              where |-> "loop",
              stepx |-> stepx, stepy |-> stepy, pad |-> pad]
        ELSE [ok |-> TRUE, err |-> "none",
              stepx |-> stepx, stepy |-> stepy, pad |-> pad,
              setsx |-> setsx, setsy |-> setsy,
              cellsx |-> cellsx, cellsy |-> cellsy,
              squares |->
                [n \in 0..63 |->
                    LET ij == CHOOSE ij \in (0..7) \X (0..7) :
                                  TileIndex(ij[1], ij[2]) = n
                    IN  [rows |-> rowsOf[ij[2]].seq, cols |-> colsOf[ij[1]].seq]]]

-----------------------------------------------------------------------------
(* checkMatch and pruneLines applied on their own to bounded line sets *)

MaxLines == 8

MaxFirst == 1

\* gaps between consecutive candidate lines, in pixels
GapSet == {2, 10, 12, 14, 16}

NoLines == <<-1>>

InitLines ==
    /\ lineset = << >>
    /\ pruned = NoLines
    /\ matched = FALSE
    /\ lpc = "in"
    /\ pc = "off"
    /\ hdx = << >>
    /\ hdy = << >>
    /\ a_shape = <<0, 0>>
    /\ lines_x = << >>
    /\ lines_y = << >>
    /\ is_match = FALSE
    /\ tiles = NoTiles
    /\ saved = {}
    /\ img_save_dir = "absent"
    /\ img = NoImage
    /\ SkelOff
    /\ RendOff

\* the caller builds the argument: one more candidate line to the right
AddLine ==
    /\ lpc = "in"
    /\ Len(lineset) < MaxLines
    /\ \E p \in IF lineset = << >> THEN 0..MaxFirst
                ELSE {lineset[Len(lineset)] + g : g \in GapSet} :
          lineset' = Append(lineset, p)
    /\ UNCHANGED <<pruned, matched, lpc, pipeVars, skelVars, rendVars>>

ApplyLines ==
    /\ lpc = "in"
    /\ pruned' = pruneLines(lineset)
    /\ matched' = checkMatch(lineset)
    /\ lpc' = "out"
    /\ UNCHANGED <<lineset, pipeVars, skelVars, rendVars>>

NextLines == AddLine \/ ApplyLines

SpecLines == InitLines /\ [][NextLines]_vars

-----------------------------------------------------------------------------
(* skeletonize_1d applied on its own to bounded non-negative arrays *)

MaxSkelLen == 6

MaxSkelVal == 3

InitSkel ==
    /\ skel_arg = << >>
    /\ skel_out = << >>
    /\ spc = "in"
    /\ lineset = << >>
    /\ pruned = NoLines
    /\ matched = FALSE
    /\ lpc = "off"
    /\ pc = "off"
    /\ hdx = << >>
    /\ hdy = << >>
    /\ a_shape = <<0, 0>>
    /\ lines_x = << >>
    /\ lines_y = << >>
    /\ is_match = FALSE
    /\ tiles = NoTiles
    /\ saved = {}
    /\ img_save_dir = "absent"
    /\ img = NoImage
    /\ RendOff

\* the caller builds the argument: one more sample to the right
AddSample ==
    /\ spc = "in"
    /\ Len(skel_arg) < MaxSkelLen
    /\ \E v \in 0..MaxSkelVal : skel_arg' = Append(skel_arg, v)
    /\ UNCHANGED <<skel_out, spc, pipeVars, lineVars, rendVars>>

ApplySkel ==
    /\ spc = "in"
    /\ skel_out' = skeletonize_1d(skel_arg)
    /\ spc' = "out"
    /\ UNCHANGED <<skel_arg, pipeVars, lineVars, rendVars>>

NextSkel == AddSample \/ ApplySkel

SpecSkel == InitSkel /\ [][NextSkel]_vars

-----------------------------------------------------------------------------
(* The script: load, the two getChessLines calls, getChessTiles, saving *)

\* tf.reduce_max over the samples lo..hi of a curve (0 for none: the curves
\* are non-negative)
RECURSIVE MaxIn(_, _, _)
MaxIn(hd, lo, hi) ==
    IF lo > hi THEN 0
    ELSE IF lo = hi THEN hd[lo]
    ELSE LET mid == (lo + hi) \div 2
         IN  Max(MaxIn(hd, lo, mid), MaxIn(hd, mid + 1, hi))

\* hough_Dx_thresh = tf.reduce_max(hough_Dx) * 3 / 5
BaseThresh(hd) == [max |-> MaxIn(hd, 1, Len(hd)), num |-> 3, den |-> 5]

\* hough_Dx_thresh.eval() * .9
ScaledThresh(t) == [max |-> t.max, num |-> 9 * t.num, den |-> 10 * t.den]

\* the strictly increasing line set that starts at first and has the gaps gs
RECURSIVE Positions(_, _)
Positions(first, gs) ==
    IF gs = << >> THEN <<first>>
    ELSE <<first>> \o Positions(first + gs[1], Tail(gs))

\* gaps of the 7 grid lines of the boards drawn in the images
CurveGaps ==
    {<<16, 16, 16, 16, 16, 16>>,
     <<16, 12, 19, 16, 12, 19>>,
     <<16, 22, 16, 16, 16, 16>>,
     <<14, 14, 14, 14, 14, 14>>}

CurveVariants == {"clean", "weak", "mid_extra", "high_extra"}

MaxCurveFirst == 8

CurveMargin == 20

\* a response curve with a peak of height 10 on every grid line; "weak" lowers
\* the third line to 6 (under 3/5 of the maximum, over 0.9 * 3/5 of it),
\* "mid_extra" and "high_extra" add a sample of height 6 or 10 half-way between
\* the second and the third line
CurveOf(first, gs, variant) ==
    LET ls == Positions(first, gs)
        mid == (ls[2] + ls[3]) \div 2
    IN  NpArray([k \in 1..(ls[7] + CurveMargin) |->
            IF variant = "weak" /\ k - 1 = ls[3] THEN 6
            ELSE IF \E m \in 1..7 : ls[m] = k - 1 THEN 10
            ELSE IF variant = "mid_extra" /\ k - 1 = mid THEN 6
            ELSE IF variant = "high_extra" /\ k - 1 = mid THEN 10
            ELSE 0])

BoardCurves ==
    {CurveOf(f, gs, v) : f \in {MaxCurveFirst}, gs \in CurveGaps, v \in CurveVariants}

\* a response curve of n samples with a peak of height 10 at each index of
\* peaks
PeakCurve(n, peaks) == NpArray([k \in 1..n |-> IF k - 1 \in peaks THEN 10 ELSE 0])

\* response curves of images without a board: an all-zero curve, the curve
\* of an image one pixel wide, curves with one peak, with 3 peaks, and with 9
\* peaks among which no 7 are evenly spaced
OtherCurves ==
    {PeakCurve(30, {}),
     <<7>>,
     PeakCurve(40, {15}),
     PeakCurve(70, {10, 26, 42}),
     PeakCurve(170, {10, 26, 42, 58, 84, 100, 116, 132, 158})}

Curves == BoardCurves \cup OtherCurves

Init ==
    /\ pc = "load"
    /\ hdx = << >>
    /\ hdy = << >>
    /\ a_shape = <<0, 0>>
    /\ lines_x = << >>
    /\ lines_y = << >>
    /\ is_match = FALSE
    /\ tiles = NoTiles
    /\ saved = {}
    /\ img_save_dir = "absent"
    /\ img = NoImage
    /\ SkelOff
    /\ RendOff
    /\ lineset = << >>
    /\ pruned = NoLines
    /\ matched = FALSE
    /\ lpc = "off"

\* the image is loaded and its two response curves evaluated: hough_Dx has one
\* sample per column of a, hough_Dy one per row
LoadImage ==
    /\ pc = "load"
    /\ \E cx \in Curves, cy \in Curves :
          /\ hdx' = cx
          /\ hdy' = cy
          /\ a_shape' = <<Len(cy), Len(cx)>>
    /\ pc' = "lines1"
    /\ UNCHANGED <<lines_x, lines_y, is_match, tiles, saved,
                   img_save_dir, img, lineVars, skelVars, rendVars>>

\* lines_x, lines_y, is_match = getChessLines(..., thresh, thresh); an
\* exception of getChessLines ends the script before the assignment
FirstAttempt ==
    /\ pc = "lines1"
    /\ LET r == getChessLines(hdx, hdy, BaseThresh(hdx), BaseThresh(hdy))
       IN  /\ lines_x' = IF r.err = "none" THEN r.lines_x ELSE lines_x
           /\ lines_y' = IF r.err = "none" THEN r.lines_y ELSE lines_y
           /\ is_match' = IF r.err = "none" THEN r.is_match ELSE is_match
           /\ pc' = IF r.err = "none" THEN "lines2" ELSE "lines_raised"
    /\ UNCHANGED <<hdx, hdy, a_shape, tiles, saved,
                   img_save_dir, img, lineVars, skelVars, rendVars>>

\* lines_x, lines_y, is_match = getChessLines(..., thresh * .9, thresh * .9):
\* the second call follows the first without a test of is_match
SecondAttempt ==
    /\ pc = "lines2"
    /\ LET r == getChessLines(hdx, hdy, ScaledThresh(BaseThresh(hdx)),
                              ScaledThresh(BaseThresh(hdy)))
       IN  /\ lines_x' = IF r.err = "none" THEN r.lines_x ELSE lines_x
           /\ lines_y' = IF r.err = "none" THEN r.lines_y ELSE lines_y
           /\ is_match' = IF r.err = "none" THEN r.is_match ELSE is_match
           /\ pc' = IF r.err = "none" THEN "tiles" ELSE "lines_raised"
    /\ UNCHANGED <<hdx, hdy, a_shape, tiles, saved,
                   img_save_dir, img, lineVars, skelVars, rendVars>>

\* squares = getChessTiles(a, lines_x, lines_y) without the test of is_match
SliceUnguarded ==
    /\ pc = "tiles"
    /\ \E nan_cast \in NanCastOutcomes :
          tiles' = getChessTiles(a_shape, lines_x, lines_y, nan_cast)
    /\ pc' = IF tiles'.ok THEN "save" ELSE "raised"
    /\ UNCHANGED <<hdx, hdy, a_shape, lines_x, lines_y, is_match, saved,
                   img_save_dir, img, lineVars, skelVars, rendVars>>

\* if is_match: squares = getChessTiles(a, lines_x, lines_y); an exception of
\* getChessTiles ends the script
Slice ==
    /\ pc = "tiles"
    /\ is_match
    /\ \E nan_cast \in NanCastOutcomes :
          tiles' = getChessTiles(a_shape, lines_x, lines_y, nan_cast)
    /\ pc' = IF tiles'.ok THEN "save" ELSE "raised"
    /\ UNCHANGED <<hdx, hdy, a_shape, lines_x, lines_y, is_match, saved,
                   img_save_dir, img, lineVars, skelVars, rendVars>>

\* else: print("Number of lines not equal to 7")
NoSlice ==
    /\ pc = "tiles"
    /\ ~is_match
    /\ pc' = "save"
    /\ UNCHANGED <<hdx, hdy, a_shape, lines_x, lines_y, is_match, tiles, saved,
                   img_save_dir, img, lineVars, skelVars, rendVars>>

\* else: if not os.path.exists(img_save_dir): os.makedirs(img_save_dir);
\* for i in range(64): ... .save(sqr_filename). Whether the directory is
\* already there is the file system's answer at that moment.
SaveTiles ==
    /\ pc = "save"
    /\ is_match
    /\ \E exists \in BOOLEAN :
          img_save_dir' = IF exists THEN "exists" ELSE "created"
    /\ saved' = DOMAIN tiles.squares
    /\ pc' = "done"
    /\ UNCHANGED <<hdx, hdy, a_shape, lines_x, lines_y, is_match, tiles, img,
                   lineVars, skelVars, rendVars>>

\* if not is_match: print("No squares to save")
NoSave ==
    /\ pc = "save"
    /\ ~is_match
    /\ pc' = "done"
    /\ UNCHANGED <<hdx, hdy, a_shape, lines_x, lines_y, is_match, tiles, saved,
                   img_save_dir, img, lineVars, skelVars, rendVars>>

Next == LoadImage \/ FirstAttempt \/ SecondAttempt \/ Slice \/ NoSlice
            \/ SaveTiles \/ NoSave

Spec == Init /\ [][Next]_vars

-----------------------------------------------------------------------------
(* The script run on drawn images: gradients, Hough projection, then the   *)
(* same steps as above                                                      *)

\* an image of 8 x 8 squares, each sqx wide and sqy high, whose top-left
\* square has the intensity first and whose squares alternate between first
\* and second (first = second: a uniform image)
CheckerImage(sqx, sqy, first, second) ==
    [kind |-> "checker", H |-> 8 * sqy, W |-> 8 * sqx, sqx |-> sqx, sqy |-> sqy,
     first |-> first, second |-> second]

\* a[r][c] for 0-based r and c, and 0 outside the array: depthwise_conv2d
\* with padding='SAME' pads the input with zeros
Pixel(im, r, c) ==
    IF r < 0 \/ r >= im.H \/ c < 0 \/ c >= im.W THEN 0
    ELSE IF ((r \div im.sqy) + (c \div im.sqx)) % 2 = 0 THEN im.first
    ELSE im.second

\* gradientx(A)[r][c]: the kernel [[-1,0,1],[-1,0,1],[-1,0,1]] laid on (r, c)
gradientx(im, r, c) ==
    (Pixel(im, r - 1, c + 1) - Pixel(im, r - 1, c - 1))
    + (Pixel(im, r, c + 1) - Pixel(im, r, c - 1))
    + (Pixel(im, r + 1, c + 1) - Pixel(im, r + 1, c - 1))

\* gradienty(A)[r][c]: the kernel [[-1,-1,-1],[0,0,0],[1,1,1]] laid on (r, c)
gradienty(im, r, c) ==
    (Pixel(im, r + 1, c - 1) - Pixel(im, r - 1, c - 1))
    + (Pixel(im, r + 1, c) - Pixel(im, r - 1, c))
    + (Pixel(im, r + 1, c + 1) - Pixel(im, r - 1, c + 1))

\* tf.clip_by_value(v, lo, hi)
ClipByValue(v, lo, hi) == Min(Max(v, lo), hi)

\* tf.reduce_sum over the samples lo..hi of a vector
RECURSIVE ReduceSum(_, _, _)
ReduceSum(v, lo, hi) ==
    IF lo > hi THEN 0
    ELSE IF lo = hi THEN v[lo]
    ELSE LET mid == (lo + hi) \div 2
         IN  ReduceSum(v, lo, mid) + ReduceSum(v, mid + 1, hi)

\* the pair <<reduce_sum(Dx_pos, 0)[c], reduce_sum(-Dx_neg, 0)[c]>> of column c
ColumnSums(im, c) ==
    LET d == NpArray([k \in 1..im.H |-> gradientx(im, k - 1, c)])
    IN  <<ReduceSum([k \in 1..im.H |-> ClipByValue(d[k], 0, 255)], 1, im.H),
          ReduceSum([k \in 1..im.H |-> -ClipByValue(d[k], -255, 0)], 1, im.H)>>

\* the pair <<reduce_sum(Dy_pos, 1)[r], reduce_sum(-Dy_neg, 1)[r]>> of row r
RowSums(im, r) ==
    LET d == NpArray([k \in 1..im.W |-> gradienty(im, r, k - 1)])
    IN  <<ReduceSum([k \in 1..im.W |-> ClipByValue(d[k], 0, 255)], 1, im.W),
          ReduceSum([k \in 1..im.W |-> -ClipByValue(d[k], -255, 0)], 1, im.W)>>

RECURSIVE Gcd(_, _)
Gcd(p, q) == IF q = 0 THEN p ELSE Gcd(q, p % q)

\* the greatest common divisor of all the sums among the pairs lo..hi, 0 when
\* all of them are 0
RECURSIVE GcdIn(_, _, _)
GcdIn(sums, lo, hi) ==
    IF lo > hi THEN 0
    ELSE IF lo = hi THEN Gcd(sums[lo][1], sums[lo][2])
    ELSE LET mid == (lo + hi) \div 2
         IN  Gcd(GcdIn(sums, lo, mid), GcdIn(sums, mid + 1, hi))

\* reduce_sum(pos) * reduce_sum(-neg) / (n * n) sample by sample, in units of
\* u * u / (n * n) for u the greatest common divisor of the sums: the
\* thresholds are fractions of the maximum of the curve and the comparison
\* hd > thresh does not depend on the unit, so the unit is chosen to keep the
\* samples whole and under 2^31
HoughCurve(sums) ==
    LET u == GcdIn(sums, 1, Len(sums))
    IN  NpArray([k \in 1..Len(sums) |->
                    IF u = 0 THEN 0 ELSE (sums[k][1] \div u) * (sums[k][2] \div u)])

\* hough_Dx.eval().flatten()
hough_Dx(im) == HoughCurve(NpArray([k \in 1..im.W |-> ColumnSums(im, k - 1)]))

\* hough_Dy.eval().flatten()
hough_Dy(im) == HoughCurve(NpArray([k \in 1..im.H |-> RowSums(im, k - 1)]))

\* side lengths of the squares of the images drawn
BoardSquares == {12, 14, 16, 25, 50}

\* the two intensities of the images drawn
BoardIntensities == {<<50, 200>>, <<200, 50>>, <<0, 255>>, <<120, 120>>}

InitBoard ==
    /\ pc = "load_board"
    /\ hdx = << >>
    /\ hdy = << >>
    /\ a_shape = <<0, 0>>
    /\ lines_x = << >>
    /\ lines_y = << >>
    /\ is_match = FALSE
    /\ tiles = NoTiles
    /\ saved = {}
    /\ img_save_dir = "absent"
    /\ img = NoImage
    /\ lineset = << >>
    /\ pruned = NoLines
    /\ matched = FALSE
    /\ lpc = "off"
    /\ SkelOff
    /\ RendOff

\* a = np.asarray(img.convert("L"), dtype=np.float32), Dx, Dy and the two
\* response curves of a
LoadBoard ==
    /\ pc = "load_board"
    /\ \E sq \in BoardSquares, in \in BoardIntensities :
          LET im == CheckerImage(sq, sq, in[1], in[2])
          IN  /\ img' = im
              /\ a_shape' = <<im.H, im.W>>
              /\ hdx' = hough_Dx(im)
              /\ hdy' = hough_Dy(im)
    /\ pc' = "lines1"
    /\ UNCHANGED <<lines_x, lines_y, is_match, tiles, saved, img_save_dir,
                   lineVars, skelVars, rendVars>>

NextBoard == LoadBoard \/ FirstAttempt \/ SecondAttempt \/ Slice \/ NoSlice
                \/ SaveTiles \/ NoSave

SpecBoard == InitBoard /\ [][NextBoard]_vars

-----------------------------------------------------------------------------
(* getChessTiles called on its own with validated line sets *)

\* gaps of line sets that pass checkMatch
TileGaps ==
    {<<12, 12, 12, 12, 12, 12>>,
     <<14, 12, 16, 14, 12, 16>>,
     <<13, 13, 13, 12, 12, 12>>}

TileFirsts == {5, 14, 20}

TileMargins == {1, 13, 20}

InitTiles ==
    /\ pc = "call"
    /\ hdx = << >>
    /\ hdy = << >>
    /\ a_shape = <<0, 0>>
    /\ lines_x = << >>
    /\ lines_y = << >>
    /\ is_match = FALSE
    /\ tiles = NoTiles
    /\ saved = {}
    /\ img_save_dir = "absent"
    /\ img = NoImage
    /\ SkelOff
    /\ RendOff
    /\ lineset = << >>
    /\ pruned = NoLines
    /\ matched = FALSE
    /\ lpc = "off"

\* the caller hands over an image and two 7-line sets inside it for which the
\* match flag is true
CallTiles ==
    /\ pc = "call"
    /\ \E fx \in TileFirsts, gx \in TileGaps, mx \in TileMargins,
          fy \in TileFirsts, gy \in TileGaps, my \in TileMargins :
          LET lx == Positions(fx, gx)
              ly == Positions(fy, gy)
          IN  /\ IsMatch(lx, ly)
              /\ lines_x' = lx
              /\ lines_y' = ly
              /\ a_shape' = <<ly[7] + my, lx[7] + mx>>
    /\ is_match' = TRUE
    /\ pc' = "tiles"
    /\ UNCHANGED <<hdx, hdy, tiles, saved,
                   img_save_dir, img, lineVars, skelVars, rendVars>>

NextTiles == CallTiles \/ Slice

SpecTiles == InitTiles /\ [][NextTiles]_vars

-----------------------------------------------------------------------------
(* getChessTiles called on its own with line sets of any length *)

MaxHandLines == 9

\* gap patterns of the line sets handed over, repeated as far as needed
HandGaps == {<<12>>, <<14, 12, 16>>}

HandFirsts == {5, 14}

HandMargins == {1, 13, 20}

\* the n positions that start at first and follow the gap pattern pat
HandLines(n, first, pat) ==
    IF n = 0 THEN << >>
    ELSE Positions(first, [k \in 1..(n - 1) |-> pat[((k - 1) % Len(pat)) + 1]])

InitHand ==
    /\ pc = "hand"
    /\ hdx = << >>
    /\ hdy = << >>
    /\ a_shape = <<0, 0>>
    /\ lines_x = << >>
    /\ lines_y = << >>
    /\ is_match = FALSE
    /\ tiles = NoTiles
    /\ saved = {}
    /\ img_save_dir = "absent"
    /\ img = NoImage
    /\ lineset = << >>
    /\ pruned = NoLines
    /\ matched = FALSE
    /\ lpc = "off"
    /\ SkelOff
    /\ RendOff

\* the caller hands over an image and two strictly increasing line sets
\* inside it, of any length
Hand ==
    /\ pc = "hand"
    /\ \E nx \in 0..MaxHandLines, fx \in HandFirsts, gx \in HandGaps,
          mx \in HandMargins,
          ny \in 0..MaxHandLines, fy \in HandFirsts, gy \in HandGaps,
          my \in HandMargins :
          LET lx == HandLines(nx, fx, gx)
              ly == HandLines(ny, fy, gy)
          IN  /\ lines_x' = lx
              /\ lines_y' = ly
              /\ a_shape' = <<(IF ny = 0 THEN fy ELSE ly[ny]) + my,
                              (IF nx = 0 THEN fx ELSE lx[nx]) + mx>>
    /\ pc' = "direct"
    /\ UNCHANGED <<hdx, hdy, is_match, tiles, saved, img_save_dir, img,
                   lineVars, skelVars, rendVars>>

\* squares = getChessTiles(a, lines_x, lines_y), called without a test
CallDirect ==
    /\ pc = "direct"
    /\ \E nan_cast \in NanCastOutcomes :
          tiles' = getChessTiles(a_shape, lines_x, lines_y, nan_cast)
    /\ pc' = IF tiles'.ok THEN "returned" ELSE "raised"
    /\ UNCHANGED <<hdx, hdy, a_shape, lines_x, lines_y, is_match, saved,
                   img_save_dir, img, lineVars, skelVars, rendVars>>

NextHand == Hand \/ CallDirect

SpecHand == InitHand /\ [][NextHand]_vars

-----------------------------------------------------------------------------
(* The screenshot renderers: WebRenderer of webkit2png.py and              *)
(* ChessScreenshotServer of helper_webkit2png.py. Time is counted in ticks *)
(* of one second. Once the event loop was told to exit it dispatches no    *)
(* further event and app.exec_() returns.                                  *)

\* WebRenderer.__init__(..., wait_time=2): seconds before the screenshot
wait_time == 2

\* QTimer.singleShot(2000, capture) of ChessScreenshotServer, in seconds
CaptureDelay == 2

\* the number of loadFinished signals a page may emit (one per navigation)
MaxLoads == 2

IsLoadFinished(e) == e \in {"loadFinished_ok", "loadFinished_fail"}

LoadsFired(h) == Len(SelectSeq(h, IsLoadFinished))

InitRender ==
    /\ rend = NoRenderer
    /\ rpc = "start"
    /\ exit_code = -1
    /\ exit_status = -1
    /\ load = "none"
    /\ timers = << >>
    /\ shot = FALSE
    /\ hist = << >>
    /\ pc = "off"
    /\ hdx = << >>
    /\ hdy = << >>
    /\ a_shape = <<0, 0>>
    /\ lines_x = << >>
    /\ lines_y = << >>
    /\ is_match = FALSE
    /\ tiles = NoTiles
    /\ saved = {}
    /\ img_save_dir = "absent"
    /\ img = NoImage
    /\ lineset = << >>
    /\ pruned = NoLines
    /\ matched = FALSE
    /\ lpc = "off"
    /\ SkelOff

\* main(url) of webkit2png.py: WebRenderer(url) connects on_load_finished to
\* loadFinished and starts the load of QUrl(url); then show() and app.exec_()
MainWebRenderer ==
    /\ rpc = "start"
    /\ rend' = [cls |-> "WebRenderer", url |-> "QUrl"]
    /\ load' = "loading"
    /\ rpc' = "exec"
    /\ hist' = hist \o <<"connect", "load", "exec">>
    /\ UNCHANGED <<exit_code, exit_status, timers, shot,
                   pipeVars, lineVars, skelVars>>

\* take_screenshot with the timer started at once instead of on loadFinished
take_screenshotEager ==
    /\ rpc = "start"
    /\ \E url \in {"QUrl", "str"} :
          /\ rend' = [cls |-> "ChessScreenshotServer", url |-> url]
          /\ IF url = "str"
             THEN /\ rpc' = "raised"
                  /\ exit_status' = 1
                  /\ load' = load
                  /\ timers' = Append(timers, CaptureDelay)
                  /\ hist' = hist \o <<"singleShot", "TypeError">>
             ELSE /\ rpc' = "exec"
                  /\ exit_status' = exit_status
                  /\ load' = "loading"
                  /\ timers' = Append(timers, CaptureDelay)
                  /\ hist' = hist \o <<"singleShot", "load", "exec">>
    /\ UNCHANGED <<exit_code, shot, pipeVars, lineVars, skelVars>>

\* ChessScreenshotServer.take_screenshot(url, output_filename): connects
\* render_screenshot to loadFinished, then self.view.load(self.url) and
\* app.exec_(). load takes a QUrl: handed a str (as take_chess_screenshot
\* does) PyQt5 raises TypeError and the program ends with status 1.
take_screenshot ==
    /\ rpc = "start"
    /\ \E url \in {"QUrl", "str"} :
          /\ rend' = [cls |-> "ChessScreenshotServer", url |-> url]
          /\ IF url = "str"
             THEN /\ rpc' = "raised"
                  /\ exit_status' = 1
                  /\ load' = load
                  /\ hist' = hist \o <<"connect", "TypeError">>
             ELSE /\ rpc' = "exec"
                  /\ exit_status' = exit_status
                  /\ load' = "loading"
                  /\ hist' = hist \o <<"connect", "load", "exec">>
    /\ UNCHANGED <<exit_code, timers, shot, pipeVars, lineVars, skelVars>>

\* the page emits loadFinished(success) and the connected slot runs.
\* WebRenderer.on_load_finished: if not success: QApplication.exit(1), and
\* in every case (there is no return) QTimer.singleShot(wait_time * 1000,
\* self.capture_screenshot). ChessScreenshotServer.render_screenshot takes
\* no success argument: QTimer.singleShot(2000, capture).
LoadFinished ==
    /\ rpc = "exec"
    /\ load = "loading"
    /\ \E success \in BOOLEAN :
          LET sig == IF success THEN "loadFinished_ok" ELSE "loadFinished_fail"
          IN  IF rend.cls = "WebRenderer"
              THEN /\ timers' = Append(timers, wait_time)
                   /\ IF success
                      THEN /\ hist' = hist \o <<sig, "singleShot">>
                           /\ UNCHANGED <<rpc, exit_code>>
                      ELSE /\ hist' = hist \o <<sig, "exit", "singleShot">>
                           /\ rpc' = "exiting"
                           /\ exit_code' = 1
              ELSE /\ timers' = Append(timers, CaptureDelay)
                   /\ hist' = hist \o <<sig, "singleShot">>
                   /\ UNCHANGED <<rpc, exit_code>>
    /\ load' = "idle"
    /\ UNCHANGED <<rend, exit_status, shot, pipeVars, lineVars, skelVars>>

\* the page navigates again (a redirect, a script): another load starts
Navigate ==
    /\ rpc = "exec"
    /\ load = "idle"
    /\ LoadsFired(hist) < MaxLoads
    /\ load' = "loading"
    /\ UNCHANGED <<rend, rpc, exit_code, exit_status, timers, shot, hist,
                   pipeVars, lineVars, skelVars>>

\* one second passes while the event loop runs
Tick ==
    /\ rpc = "exec"
    /\ \E k \in 1..Len(timers) : timers[k] > 0
    /\ timers' = [k \in 1..Len(timers) |-> Max(0, timers[k] - 1)]
    /\ hist' = Append(hist, "tick")
    /\ UNCHANGED <<rend, rpc, exit_code, exit_status, load, shot,
                   pipeVars, lineVars, skelVars>>

\* a single-shot timer that has run out fires: capture_screenshot / capture
\* saves the grabbed view as PNG and calls QApplication.quit() / app.quit()
Timeout ==
    /\ rpc = "exec"
    /\ \E k \in 1..Len(timers) :
          /\ timers[k] = 0
          /\ timers' = SubSeq(timers, 1, k - 1) \o SubSeq(timers, k + 1, Len(timers))
    /\ shot' = TRUE
    /\ exit_code' = 0
    /\ rpc' = "exiting"
    /\ hist' = hist \o <<"timeout", "save", "quit">>
    /\ UNCHANGED <<rend, exit_status, load, pipeVars, lineVars, skelVars>>

\* app.exec_() returns the code handed to exit() / quit(): sys.exit(code)
LoopExit ==
    /\ rpc = "exiting"
    /\ exit_status' = exit_code
    /\ rpc' = "exited"
    /\ UNCHANGED <<rend, exit_code, load, timers, shot, hist,
                   pipeVars, lineVars, skelVars>>

NextRender == MainWebRenderer \/ take_screenshot \/ LoadFinished \/ Navigate
                 \/ Tick \/ Timeout \/ LoopExit

SpecRender == InitRender /\ [][NextRender]_vars

-----------------------------------------------------------------------------
(* Claims about checkMatch and pruneLines, under SpecLines *)

\* sub is lineset[lo:lo+Len(sub)] for some lo
IsContiguousSub(sub, ls) ==
    \E lo \in 0..(Len(ls) - Len(sub)) :
        \A k \in 1..Len(sub) : sub[k] = ls[lo + k]

\* C4: pruneLines returns its argument unchanged or a contiguous
\* sub-sequence of it that holds exactly 7 positions.
C4_UnchangedOrSeven ==
    lpc = "out" =>
        \/ pruned = lineset
        \/ Len(pruned) = 7 /\ IsContiguousSub(pruned, lineset)

\* the gaps of ls hold a reference gap followed by 5 gaps within 5 px of it
HasConsistentRun(ls) ==
    LET d == NpDiff(ls) IN
    \E s \in 1..(Len(d) - 5) : \A k \in (s + 1)..(s + 5) : Abs(d[k] - d[s]) < 5

\* C5: checkMatch is True exactly when the line set contains 7 consecutive
\* lines with consistent spacing (a reference gap and a run of 5 gaps within
\* 5 px of it), whatever the length of the set.
C5_MatchIffRunExists ==
    lpc = "out" => (matched <=> HasConsistentRun(lineset))

\* ls is 7 grid lines of uniform spacing s >= 10, each moved by at most n px
IsJitteredGrid(ls, n) ==
    /\ Len(ls) = 7
    /\ \E s \in 10..20, p0 \in Max(0, ls[1] - n)..(ls[1] + n) :
          \A k \in 1..7 : Abs(ls[k] - (p0 + (k - 1) * s)) <= n

\* C7 as stated: 7 uniformly spaced lines each moved by at most 4 px are kept
\* whole by pruneLines and pass checkMatch.
C7_JitterFourPasses ==
    (lpc = "out" /\ IsJitteredGrid(lineset, 4)) =>
        (pruned = lineset /\ matched)

\* C7 amended: 7 uniformly spaced lines each moved by at most 1 px are kept
\* whole by pruneLines and pass checkMatch.
C7_JitterOnePasses ==
    (lpc = "out" /\ IsJitteredGrid(lineset, 1)) =>
        (pruned = lineset /\ matched)

\* a grid of spacing 12 moved by 1 px so that two gaps differ by 4 px
C7_Witness ==
    /\ lpc = "out"
    /\ IsJitteredGrid(lineset, 1)
    /\ NpDiff(lineset)[1] = 10
    /\ NpDiff(lineset)[2] = 14
    /\ pruned = lineset
    /\ matched

\* C19: whenever pruneLines returns a pruned sub-sequence of a strictly
\* increasing line set, checkMatch of the returned sub-sequence is True,
\* also when the gaps of the run are smaller than 5 px.
C19_PrunedPassesCheckMatch ==
    (lpc = "out" /\ pruned # lineset) => checkMatch(pruned)

-----------------------------------------------------------------------------
(* Claims about skeletonize_1d, under SpecSkel *)

\* sample i of a is strictly greater than its right neighbour (or is the
\* last one) and its left neighbour is not greater than it (or it is the
\* first one)
SkelKeeps(a, i) ==
    /\ i = Len(a) \/ a[i] > a[i + 1]
    /\ i = 1 \/ a[i - 1] <= a[i]

\* C16: for a non-negative array, skeletonize_1d returns an array of the same
\* length in which a sample keeps its value if and only if it is strictly
\* greater than its right neighbour (or last) and its left neighbour is not
\* greater than it (or it is first), and is 0 otherwise; no two adjacent
\* output samples are both nonzero, and of a run of equal samples only the
\* rightmost can survive.
C16_KeepsRightmostLocalMaxima ==
    spc = "out" =>
        /\ Len(skel_out) = Len(skel_arg)
        /\ \A i \in 1..Len(skel_arg) :
              skel_out[i] = IF SkelKeeps(skel_arg, i) THEN skel_arg[i] ELSE 0
        /\ \A i \in 1..(Len(skel_out) - 1) :
              skel_out[i] = 0 \/ skel_out[i + 1] = 0
        /\ \A i \in 1..(Len(skel_arg) - 1) :
              skel_arg[i] = skel_arg[i + 1] => skel_out[i] = 0

\* a plateau of two equal samples that is a peak, thinned to its right
\* sample, next to a slope whose lower samples were removed
C16_Witness ==
    /\ spc = "out"
    /\ \E i \in 2..(Len(skel_arg) - 3) :
          /\ skel_arg[i - 1] < skel_arg[i]
          /\ skel_arg[i] = skel_arg[i + 1]
          /\ skel_arg[i + 1] > skel_arg[i + 2]
          /\ skel_arg[i + 2] > skel_arg[i + 3]
          /\ skel_arg[i + 3] > 0
          /\ skel_out[i] = 0
          /\ skel_out[i + 1] = skel_arg[i + 1]
          /\ skel_out[i + 2] = 0
          /\ skel_out[i + 3] = 0

-----------------------------------------------------------------------------
(* Claims about getChessLines and its two calls, under Spec *)

AfterFirstAttempt == pc \in {"lines2", "tiles", "save", "raised", "done"}

\* C1: after a getChessLines call, is_match is True if and only if each of
\* the two returned (pruned) line sets has exactly 7 positions and passes
\* checkMatch.
C1_MatchIffBothAxesValid ==
    AfterFirstAttempt =>
        (is_match <=> (/\ Len(lines_x) = 7 /\ checkMatch(lines_x)
                       /\ Len(lines_y) = 7 /\ checkMatch(lines_y)))

\* the first call matched on a board whose x gaps are not all equal
C1_Witness ==
    /\ pc = "lines2"
    /\ is_match
    /\ \E k \in 2..6 : NpDiff(lines_x)[k] # NpDiff(lines_x)[1]

StrictlyIncreasing(ls) == \A k \in 1..(Len(ls) - 1) : ls[k] < ls[k + 1]

\* C6 as stated: when is_match is True each returned line set is strictly
\* increasing, has 7 positions, and any two of its six gaps differ by less
\* than 5 px.
C6_GapsPairwiseWithinFive ==
    (AfterFirstAttempt /\ is_match) =>
        \A ls \in {lines_x, lines_y} :
            /\ StrictlyIncreasing(ls)
            /\ Len(ls) = 7
            /\ \A k, m \in 1..6 : Abs(NpDiff(ls)[k] - NpDiff(ls)[m]) < 5

\* C6 amended: when is_match is True each returned line set is strictly
\* increasing, has 7 positions, and each of its gaps differs from the first
\* gap by less than 5 px.
C6_GapsWithinFiveOfFirst ==
    (AfterFirstAttempt /\ is_match) =>
        \A ls \in {lines_x, lines_y} :
            /\ StrictlyIncreasing(ls)
            /\ Len(ls) = 7
            /\ \A k \in 2..6 : Abs(NpDiff(ls)[k] - NpDiff(ls)[1]) < 5

\* a match whose x gaps are 5 px or more apart from one another
C6_Witness ==
    /\ AfterFirstAttempt
    /\ is_match
    /\ \E k, m \in 1..6 : Abs(NpDiff(lines_x)[k] - NpDiff(lines_x)[m]) >= 5

\* C11: getChessLines never raises, whatever the number of candidate lines
\* its curves yield (none, one, fewer or more than 7), and whenever a
\* returned line set does not hold 7 positions the call has returned with
\* is_match = False.
C11_NeverRaisesFlagOnly ==
    /\ pc # "lines_raised"
    /\ (AfterFirstAttempt /\ (Len(lines_x) # 7 \/ Len(lines_y) # 7)) => ~is_match

\* a call returned no line at all on one axis and more than 7 on the other
C11_Witness ==
    /\ pc = "lines2"
    /\ lines_x = << >>
    /\ Len(lines_y) > 7
    /\ ~is_match

\* a call returned for the curve of an image one pixel wide
C11_WitnessShort ==
    /\ pc = "tiles"
    /\ Len(hdx) = 1
    /\ Len(lines_x) = 1
    /\ Len(lines_y) \in 1..6

C13_Boards == {CheckerImage(50, 50, 50, 200), CheckerImage(50, 50, 200, 50)}

C13_Lines == <<50, 100, 150, 200, 250, 300, 350>>

\* C13: for the 400 x 400 checkerboard of 50 px squares of intensities 50 and
\* 200, both getChessLines calls return lines_x = lines_y =
\* [50,100,150,200,250,300,350] with is_match True, and getChessTiles then
\* returns 64 tiles of 50 x 50.
C13_CheckerboardFound ==
    img \in C13_Boards =>
        /\ a_shape = <<400, 400>>
        /\ pc \notin {"lines_raised", "raised"}
        /\ pc \in {"lines2", "tiles", "save", "done"} =>
              (lines_x = C13_Lines /\ lines_y = C13_Lines /\ is_match)
        /\ pc \in {"save", "done"} =>
              /\ tiles.ok
              /\ DOMAIN tiles.squares = 0..63
              /\ \A n \in 0..63 : /\ Len(tiles.squares[n].rows) = 50
                                   /\ Len(tiles.squares[n].cols) = 50

\* the script ran to its end on the checkerboard and saved 64 tiles
C13_Witness ==
    /\ img \in C13_Boards
    /\ pc = "done"
    /\ is_match
    /\ saved = 0..63

\* C10: a match found by the first attempt is the reported result: the step
\* that follows a matching first attempt leaves is_match True.
C10_FirstMatchIsFinal ==
    [][(pc = "lines2" /\ is_match) => is_match']_vars

\* C12: getChessTiles is invoked, tiles are written and the output directory
\* is created only if the final match flag is True; a run that ends with the
\* flag False has produced no tile stack, no tile file and no directory.
C12_TilesOnlyOnMatch ==
    /\ (tiles # NoTiles \/ saved # {} \/ img_save_dir # "absent") => is_match
    /\ (pc = "done" /\ ~is_match) =>
           (tiles = NoTiles /\ saved = {} /\ img_save_dir = "absent")

\* a run that found 7 lines on the x axis ended with the flag False
C12_Witness ==
    /\ pc = "done"
    /\ ~is_match
    /\ Len(lines_x) = 7
    /\ tiles = NoTiles
    /\ saved = {}
    /\ img_save_dir = "absent"

-----------------------------------------------------------------------------
(* Claims about getChessTiles, under SpecTiles *)

AfterTiles == pc \in {"save", "raised"}

\* C2: for 7-line sets inside the image with the match flag true,
\* getChessTiles returns 64 tiles, each of shape (stepy, stepx), the rounded
\* mean gaps.
C2_SixtyFourTilesOfStepShape ==
    AfterTiles =>
        /\ tiles.ok
        /\ DOMAIN tiles.squares = 0..63
        /\ \A n \in 0..63 :
              /\ Len(tiles.squares[n].rows) = MeanStep(lines_y)
              /\ Len(tiles.squares[n].cols) = MeanStep(lines_x)

\* the source indices of an edge cell of the board along one axis of length
\* n: step pixels from first on, the pixels outside the image replaced by the
\* nearest border pixel
EdgeCell(first, step, n) ==
    [t \in 1..step |-> Max(0, Min(n - 1, first + t - 1))]

TopRows == EdgeCell(lines_y[1] - MeanStep(lines_y), MeanStep(lines_y), a_shape[1])

BottomRows == EdgeCell(lines_y[7], MeanStep(lines_y), a_shape[1])

LeftCols == EdgeCell(lines_x[1] - MeanStep(lines_x), MeanStep(lines_x), a_shape[2])

RightCols == EdgeCell(lines_x[7], MeanStep(lines_x), a_shape[2])

C8_PadsEqualOverflow ==
    AfterTiles =>
        /\ tiles.pad.padl_x = Max(0, tiles.stepx - lines_x[1])
        /\ tiles.pad.padr_x = Max(0, lines_x[7] + tiles.stepx - a_shape[2])
        /\ tiles.pad.padl_y = Max(0, tiles.stepy - lines_y[1])
        /\ tiles.pad.padr_y = Max(0, lines_y[7] + tiles.stepy - a_shape[1])

\* C9: when lines_x[0] - stepx < 0, getChessTiles does not fail, pads the
\* image on the left by stepx - lines_x[0] columns, and every tile of the
\* leftmost column starts at the left board boundary and is stepx wide.
C9_LeftOverhangPadded ==
    (AfterTiles /\ lines_x[1] - MeanStep(lines_x) < 0) =>
        /\ tiles.ok
        /\ tiles.pad.padl_x = MeanStep(lines_x) - lines_x[1]
        /\ \A j \in 0..7 :
              /\ tiles.squares[TileIndex(0, j)].cols = LeftCols
              /\ Len(tiles.squares[TileIndex(0, j)].cols) = MeanStep(lines_x)

\* the width of cell c along one axis before the tile loop touches it
CellWidth(sets, c) == sets[c + 2] - sets[c + 1]

Padded(b) == b.padl > 0 \/ b.padr > 0

Clamped(sets, b, c) == b.v1 # sets[c + 1] \/ b.v2 # sets[c + 2]

\* C17 as stated: interior cells (columns and rows 1..6) are never padded,
\* only clamped; only edge cells receive padding, and edge cells are never
\* shrunk.
C17_OnlyEdgeCellsPadded ==
    (AfterTiles /\ tiles.ok) =>
        /\ \A c \in 1..6 : ~Padded(tiles.cellsx[c]) /\ ~Padded(tiles.cellsy[c])
        /\ \A c \in {0, 7} : /\ ~Clamped(tiles.setsx, tiles.cellsx[c], c)
                              /\ ~Clamped(tiles.setsy, tiles.cellsy[c], c)

\* the rule of the tile loop along one axis: a cell wider than step is cut to
\* step by moving its far boundary (its near one for cell 7) and is not
\* padded; a narrower cell keeps its boundaries and is padded up to step on
\* its near side (its far side for cell 7); cells 0 and 7 are step wide
AxisRule(sets, step, cells) ==
    \A c \in 0..7 :
        LET w == CellWidth(sets, c)
            b == cells[c]
        IN  /\ w > step =>
                  /\ ~Padded(b)
                  /\ b.v2 - b.v1 = step
                  /\ IF c = 7 THEN b.v2 = sets[c + 2] ELSE b.v1 = sets[c + 1]
            /\ w < step =>
                  /\ ~Clamped(sets, b, c)
                  /\ IF c = 7 THEN b.padl = 0 /\ b.padr = step - w
                               ELSE b.padl = step - w /\ b.padr = 0
            /\ w = step => (~Clamped(sets, b, c) /\ ~Padded(b))
            /\ c \in {0, 7} => w = step

\* the leading padl samples of a padded tile axis repeat the first sample cut
\* from the image
EdgeReplicated(seq, b) == \A k \in 1..b.padl : seq[k] = seq[b.padl + 1]

\* C17 amended: in a call that returns, a cell wider than the step is
\* clamped and not padded, a cell narrower than the step, interior cells
\* included, is padded with edge-replicated pixels up to the step, and the
\* first and last cell of each axis are exactly one step wide, neither
\* shrunk nor padded by the tile loop.
C17_WideClampedNarrowPadded ==
    (AfterTiles /\ tiles.ok) =>
        /\ AxisRule(tiles.setsx, tiles.stepx, tiles.cellsx)
        /\ AxisRule(tiles.setsy, tiles.stepy, tiles.cellsy)
        /\ \A i \in 0..7, j \in 0..7 :
              LET t == tiles.squares[TileIndex(i, j)]
              IN  /\ Len(t.cols) = tiles.stepx
                  /\ Len(t.rows) = tiles.stepy
                  /\ EdgeReplicated(t.cols, tiles.cellsx[i])
                  /\ EdgeReplicated(t.rows, tiles.cellsy[j])

\* a stack with an interior column that was padded and another that was
\* clamped
C17_Witness ==
    /\ AfterTiles
    /\ tiles.ok
    /\ \E c \in 1..6 : tiles.cellsx[c].padl > 0
    /\ \E c \in 1..6 : Clamped(tiles.setsx, tiles.cellsx[c], c)

-----------------------------------------------------------------------------
(* Claims about getChessTiles handed any line sets, under SpecHand *)

AfterDirect == pc \in {"returned", "raised"}

C18_WitnessShort ==
    /\ pc = "raised"
    /\ Len(lines_x) = 6
    /\ Len(lines_y) = 7
    /\ tiles.err = "IndexError"
    /\ tiles.where = "loop"

-----------------------------------------------------------------------------
(* Claims about the screenshot renderers, under SpecRender *)

\* the number of ticks among the events p..q of the history
TicksIn(p, q) == Cardinality({t \in p..q : hist[t] = "tick"})

RenderDelay == IF rend.cls = "WebRenderer" THEN wait_time ELSE CaptureDelay

C15_FailedLoadFails ==
    /\ (rpc = "exited" /\ \E p \in 1..Len(hist) : hist[p] = "loadFinished_fail")
          => (exit_status # 0 /\ ~shot)
    /\ \A p \in 1..Len(hist) :
          hist[p] = "save" => \A q \in 1..p : hist[q] # "loadFinished_fail"

=============================================================================
